---- MODULE Spec2Model ----
(***************************************************************************)
(* Model of the video viewer of src/app/battle/page.tsx (BattlePage): the  *)
(* React state of the modal, the gesture handlers, the two-phase close     *)
(* (closeSoft / closeHard) and the Esc-listener / scroll-lock effect.      *)
(* Every event handler runs to completion, followed by the render and the  *)
(* effects it causes, before the next event is handled.                    *)
(***************************************************************************)
EXTENDS Integers, Sequences, FiniteSets, TLC

(* ---------------- program constants (page.tsx:31-35) ------------------- *)
WHEEL_CLOSE_THRESHOLD == 120
SWIPE_X_THRESHOLD == 80
SWIPE_Y_THRESHOLD == 100
SWIPE_X_DISTANCE == 200
SWIPE_Y_DISTANCE == 240

(* ---------------- bounds of the model ---------------------------------- *)
\* most setTimeout callbacks pending at once
MaxTimers == 2
\* largest value the wheel accumulator is driven to
MaxWheelEnergy == 300

(* ---------------- inputs ------------------------------------------------ *)
\* the loaded video list (ids)
Items == {"v1", "v2"}
\* deltaY of a wheel event
WheelDeltas == {-100, 0, 100}
\* clientX / clientY of the first touch of a touchstart event
TouchStarts == {<<0, 0>>, <<10, 10>>}
\* clientX / clientY of the first touch of a touchmove event
TouchPoints == {<<0, 0>>, <<90, 50>>, <<50, 110>>, <<90, 95>>, <<110, 110>>, <<250, 250>>}
\* e.key of a keydown event
Keys == {"Escape", "Enter"}
\* where a click lands inside the overlay
ClickTargets == {"backdrop", "closeBtn", "content"}
\* e.target of a transitionend event seen by the dialog element
TransitionTargets == {"self", "descendant"}

NULL == "null"
NoTouch == << >>

VARIABLES
  active,       \* useState<VideoItem | null>: id of the active item or NULL
  isPlaying,    \* useState(false)
  isClosing,    \* useState(false)
  dragX,        \* useState(0)
  dragY,        \* useState(0)
  wheelAccum,   \* wheelAccumRef.current
  touchStart,   \* touchStartRef.current: NoTouch or <<x, y>>
  timers,       \* number of pending setTimeout(() => closeHard(), 260)
  keyListener,  \* document has the keydown listener onKeyDown
  scrollLock,   \* document.body.style.overflow = "hidden"
  ev,           \* history: name of the last event handled
  hardStreak,   \* history: number of consecutive handlers that ran closeHard
  softLog       \* history: closeSoft calls of this session, <<all, from handleWheel>>

progVars == <<active, isPlaying, isClosing, dragX, dragY, wheelAccum,
              touchStart, keyListener, scrollLock>>
vars == <<active, isPlaying, isClosing, dragX, dragY, wheelAccum,
          touchStart, timers, keyListener, scrollLock, ev, hardStreak, softLog>>

Abs(n) == IF n < 0 THEN -n ELSE n
Min(a, b) == IF a <= b THEN a ELSE b
Max(a, b) == IF a >= b THEN a ELSE b

(* ---------------- the effect of lines 116-125 --------------------------- *)
\* After a render in which `active` changed, the previous effect's cleanup
\* runs (if that effect installed anything) and the effect runs again.
\* variant: the effect returns no cleanup function
useEffectLock_NoCleanup ==
  IF active' = active
  THEN UNCHANGED <<keyListener, scrollLock>>
  ELSE /\ keyListener' = IF active' # NULL THEN TRUE ELSE keyListener
       /\ scrollLock'  = IF active' # NULL THEN TRUE ELSE scrollLock

useEffectLock ==
  IF active' = active
  THEN UNCHANGED <<keyListener, scrollLock>>
  ELSE LET cleanedListener == IF active # NULL THEN FALSE ELSE keyListener
           cleanedLock     == IF active # NULL THEN FALSE ELSE scrollLock
       IN  /\ keyListener' = IF active' # NULL THEN TRUE ELSE cleanedListener
           /\ scrollLock'  = IF active' # NULL THEN TRUE ELSE cleanedLock

(* ---------------- closeHard / closeSoft (lines 64-77) ------------------- *)
\* variant: touchStartRef.current is not cleared
closeHard_KeepsAnchor ==
  /\ active' = NULL
  /\ isPlaying' = FALSE
  /\ isClosing' = FALSE
  /\ dragX' = 0
  /\ dragY' = 0
  /\ wheelAccum' = 0
  /\ touchStart' = touchStart

\* variant: wheelAccumRef.current is not cleared
closeHard_KeepsWheel ==
  /\ active' = NULL
  /\ isPlaying' = FALSE
  /\ isClosing' = FALSE
  /\ dragX' = 0
  /\ dragY' = 0
  /\ wheelAccum' = wheelAccum
  /\ touchStart' = NoTouch

\* variant: setIsPlaying((p) => !p) instead of setIsPlaying(false)
closeHard_TogglePlaying ==
  /\ active' = NULL
  /\ isPlaying' = ~isPlaying
  /\ isClosing' = FALSE
  /\ dragX' = 0
  /\ dragY' = 0
  /\ wheelAccum' = 0
  /\ touchStart' = NoTouch

closeHard ==
  /\ active' = NULL
  /\ isPlaying' = FALSE
  /\ isClosing' = FALSE
  /\ dragX' = 0
  /\ dragY' = 0
  /\ wheelAccum' = 0
  /\ touchStart' = NoTouch

\* variant: the setTimeout line is missing
closeSoft_NoTimer(origin) ==
  /\ timers < MaxTimers
  /\ isClosing' = TRUE
  /\ timers' = timers
  /\ softLog' = <<softLog[1] + 1, softLog[2] + (IF origin = "wheel" THEN 1 ELSE 0)>>

closeSoft(origin) ==
  /\ timers < MaxTimers
  /\ isClosing' = TRUE
  /\ timers' = timers + 1
  /\ softLog' = <<softLog[1] + 1, softLog[2] + (IF origin = "wheel" THEN 1 ELSE 0)>>

\* the handler did not call closeHard
NoHard == hardStreak' = 0
\* the handler called closeHard
DidHard == hardStreak' = hardStreak + 1

(* ---------------- dismiss policy (lines 167-169) ------------------------ *)
\* variant: thresholds compared with >= instead of >
shouldClose_Inclusive(dx, dy) ==
  \/ (dx >= SWIPE_X_THRESHOLD /\ dx > Abs(dy))
  \/ (dy >= SWIPE_Y_THRESHOLD /\ dy >= Abs(dx))

\* variant: the x check does not compare against the other axis
shouldClose_NoDominance(dx, dy) ==
  \/ dx > SWIPE_X_THRESHOLD
  \/ (dy > SWIPE_Y_THRESHOLD /\ dy >= Abs(dx))

shouldClose(dx, dy) ==
  \/ (dx > SWIPE_X_THRESHOLD /\ dx > Abs(dy))
  \/ (dy > SWIPE_Y_THRESHOLD /\ dy >= Abs(dx))

(* ---------------- visual mapping (lines 178-191) ------------------------ *)
\* Fractions are kept exact: progress values are numerators over ProgressDen,
\* overlayAlpha and scale over 100 * ProgressDen, opacity over 10 * ProgressDen.
ProgressDen == SWIPE_X_DISTANCE * SWIPE_Y_DISTANCE

\* variant: dragX / SWIPE_X_DISTANCE without Math.min(..., 1)
progressX_Unclamped(dx) == dx * SWIPE_Y_DISTANCE

\* Math.min(dragX / SWIPE_X_DISTANCE, 1)
progressX(dx) == Min(dx * SWIPE_Y_DISTANCE, ProgressDen)
\* Math.min(dragY / SWIPE_Y_DISTANCE, 1)
progressY(dy) == Min(dy * SWIPE_X_DISTANCE, ProgressDen)
\* Math.max(progressX, progressY)
progress(dx, dy) == Max(progressX(dx), progressY(dy))
\* 0.8 * (1 - 0.6 * progress)
overlayAlpha(dx, dy) == 8 * (10 * ProgressDen - 6 * progress(dx, dy))
\* 1 - 0.05 * progress
scale(dx, dy) == 100 * ProgressDen - 5 * progress(dx, dy)
\* modalStyle.opacity: 1 - 0.4 * progress
contentOpacity(dx, dy) == 10 * ProgressDen - 4 * progress(dx, dy)

(* ---------------- actions ----------------------------------------------- *)
Init ==
  /\ active = NULL
  /\ isPlaying = FALSE
  /\ isClosing = FALSE
  /\ dragX = 0
  /\ dragY = 0
  /\ wheelAccum = 0
  /\ touchStart = NoTouch
  /\ timers = 0
  /\ keyListener = FALSE
  /\ scrollLock = FALSE
  /\ ev = "init"
  /\ hardStreak = 0
  /\ softLog = <<0, 0>>

\* card onClick (lines 241-246): setActive(v)
CardClick(v) ==
  /\ active' = v
  /\ softLog' = IF active = NULL THEN <<0, 0>> ELSE softLog
  /\ ev' = "card"
  /\ NoHard
  /\ UNCHANGED <<isPlaying, isClosing, dragX, dragY, wheelAccum, touchStart, timers>>
  /\ useEffectLock

\* onKeyDown (lines 79-84), registered on document by the effect
KeyDown(key) ==
  /\ keyListener
  /\ ev' = "key"
  /\ NoHard
  /\ IF key = "Escape"
     THEN closeSoft("key")
     ELSE UNCHANGED <<isClosing, timers, softLog>>
  /\ UNCHANGED <<active, isPlaying, dragX, dragY, wheelAccum, touchStart>>
  /\ useEffectLock

\* onClick of the overlay (275), of the dialog (286) and of the close button (315)
Click(target) ==
  /\ active # NULL
  /\ ev' = "click"
  /\ NoHard
  /\ IF target = "content"
     THEN UNCHANGED <<isClosing, timers, softLog>>
     ELSE closeSoft("click")
  /\ UNCHANGED <<active, isPlaying, dragX, dragY, wheelAccum, touchStart>>
  /\ useEffectLock

\* variant: the early return tests deltaY < 0
handleWheel_ZeroCounts(deltaY) ==
  /\ active # NULL
  /\ ev' = "wheel"
  /\ NoHard
  /\ IF ~isPlaying \/ deltaY < 0
     THEN UNCHANGED <<wheelAccum, dragY, isClosing, timers, softLog>>
     ELSE /\ wheelAccum + deltaY <= MaxWheelEnergy
          /\ wheelAccum' = wheelAccum + deltaY
          /\ dragY' = Min(dragY + (deltaY * 4) \div 10, SWIPE_Y_DISTANCE)
          /\ IF wheelAccum' >= WHEEL_CLOSE_THRESHOLD
             THEN closeSoft("wheel")
             ELSE UNCHANGED <<isClosing, timers, softLog>>
  /\ UNCHANGED <<active, isPlaying, dragX, touchStart>>
  /\ useEffectLock

\* handleWheel (lines 128-139)
handleWheel(deltaY) ==
  /\ active # NULL
  /\ ev' = "wheel"
  /\ NoHard
  /\ IF ~isPlaying \/ deltaY <= 0
     THEN UNCHANGED <<wheelAccum, dragY, isClosing, timers, softLog>>
     ELSE /\ wheelAccum + deltaY <= MaxWheelEnergy
          /\ wheelAccum' = wheelAccum + deltaY
          /\ dragY' = Min(dragY + (deltaY * 4) \div 10, SWIPE_Y_DISTANCE)
          /\ IF wheelAccum' >= WHEEL_CLOSE_THRESHOLD
             THEN closeSoft("wheel")
             ELSE UNCHANGED <<isClosing, timers, softLog>>
  /\ UNCHANGED <<active, isPlaying, dragX, touchStart>>
  /\ useEffectLock

\* variant: the wheel accumulator is reset with the drag vector
handleTouchStart_ResetsWheel(p) ==
  /\ active # NULL
  /\ ev' = "touchStart"
  /\ NoHard
  /\ IF ~isPlaying
     THEN UNCHANGED <<touchStart, dragX, dragY, wheelAccum>>
     ELSE /\ touchStart' = p
          /\ dragX' = 0
          /\ dragY' = 0
          /\ wheelAccum' = 0
  /\ UNCHANGED <<active, isPlaying, isClosing, timers, softLog>>
  /\ useEffectLock

\* variant: the isPlaying guard is missing
handleTouchStart_NoGate(p) ==
  /\ active # NULL
  /\ ev' = "touchStart"
  /\ NoHard
  /\ touchStart' = p
  /\ dragX' = 0
  /\ dragY' = 0
  /\ UNCHANGED <<active, isPlaying, isClosing, wheelAccum, timers, softLog>>
  /\ useEffectLock

\* handleTouchStart (lines 142-151)
handleTouchStart(p) ==
  /\ active # NULL
  /\ ev' = "touchStart"
  /\ NoHard
  /\ IF ~isPlaying
     THEN UNCHANGED <<touchStart, dragX, dragY>>
     ELSE /\ touchStart' = p
          /\ dragX' = 0
          /\ dragY' = 0
  /\ UNCHANGED <<active, isPlaying, isClosing, wheelAccum, timers, softLog>>
  /\ useEffectLock

\* handleTouchMove (lines 153-163)
handleTouchMove(p) ==
  /\ active # NULL
  /\ ev' = "touchMove"
  /\ NoHard
  /\ IF ~isPlaying \/ touchStart = NoTouch
     THEN UNCHANGED <<dragX, dragY>>
     ELSE /\ dragX' = Max(0, p[1] - touchStart[1])
          /\ dragY' = Max(0, p[2] - touchStart[2])
  /\ UNCHANGED <<active, isPlaying, isClosing, wheelAccum, touchStart, timers, softLog>>
  /\ useEffectLock

\* variant: the anchor is cleared only when the release commits
handleTouchEnd_KeepsAnchor ==
  /\ active # NULL
  /\ ev' = "touchEnd"
  /\ NoHard
  /\ IF ~isPlaying \/ touchStart = NoTouch
     THEN UNCHANGED <<dragX, dragY, touchStart, isClosing, timers, softLog>>
     ELSE IF shouldClose(dragX, dragY)
          THEN closeSoft("touch") /\ UNCHANGED <<dragX, dragY>> /\ touchStart' = NoTouch
          ELSE /\ dragX' = 0
               /\ dragY' = 0
               /\ UNCHANGED <<touchStart, isClosing, timers, softLog>>
  /\ UNCHANGED <<active, isPlaying, wheelAccum>>
  /\ useEffectLock

\* variant: the early return does not test touchStartRef.current
handleTouchEnd_NoAnchorGuard ==
  /\ active # NULL
  /\ ev' = "touchEnd"
  /\ NoHard
  /\ IF ~isPlaying
     THEN UNCHANGED <<dragX, dragY, touchStart, isClosing, timers, softLog>>
     ELSE /\ IF shouldClose(dragX, dragY)
             THEN closeSoft("touch") /\ UNCHANGED <<dragX, dragY>>
             ELSE /\ dragX' = 0
                  /\ dragY' = 0
                  /\ UNCHANGED <<isClosing, timers, softLog>>
          /\ touchStart' = NoTouch
  /\ UNCHANGED <<active, isPlaying, wheelAccum>>
  /\ useEffectLock

\* handleTouchEnd (lines 165-176)
handleTouchEnd ==
  /\ active # NULL
  /\ ev' = "touchEnd"
  /\ NoHard
  /\ IF ~isPlaying \/ touchStart = NoTouch
     THEN UNCHANGED <<dragX, dragY, touchStart, isClosing, timers, softLog>>
     ELSE /\ IF shouldClose(dragX, dragY)
             THEN closeSoft("touch") /\ UNCHANGED <<dragX, dragY>>
             ELSE /\ dragX' = 0
                  /\ dragY' = 0
                  /\ UNCHANGED <<isClosing, timers, softLog>>
          /\ touchStart' = NoTouch
  /\ UNCHANGED <<active, isPlaying, wheelAccum>>
  /\ useEffectLock

\* onPlay of the video element (lines 303-306)
onPlay ==
  /\ active # NULL
  /\ ev' = "play"
  /\ NoHard
  /\ isPlaying' = TRUE
  /\ wheelAccum' = 0
  /\ UNCHANGED <<active, isClosing, dragX, dragY, touchStart, timers, softLog>>
  /\ useEffectLock

\* onPause of the video element (line 307)
onPause ==
  /\ active # NULL
  /\ ev' = "pause"
  /\ NoHard
  /\ isPlaying' = FALSE
  /\ UNCHANGED <<active, isClosing, dragX, dragY, wheelAccum, touchStart, timers, softLog>>
  /\ useEffectLock

\* onTransitionEnd of the dialog element (lines 290-292)
onTransitionEnd(target) ==
  /\ active # NULL
  /\ ev' = "transitionEnd"
  /\ IF isClosing /\ target = "self"
     THEN closeHard /\ DidHard
     ELSE NoHard /\ UNCHANGED <<active, isPlaying, isClosing, dragX, dragY,
                                wheelAccum, touchStart>>
  /\ UNCHANGED <<timers, softLog>>
  /\ useEffectLock

\* the callback of setTimeout(() => closeHard(), 260) (line 76)
TimerFire ==
  /\ timers > 0
  /\ timers' = timers - 1
  /\ ev' = "timer"
  /\ closeHard
  /\ DidHard
  /\ UNCHANGED softLog
  /\ useEffectLock

Next ==
  \/ \E v \in Items : CardClick(v)
  \/ \E k \in Keys : KeyDown(k)
  \/ \E t \in ClickTargets : Click(t)
  \/ \E d \in WheelDeltas : handleWheel(d)
  \/ \E p \in TouchStarts : handleTouchStart(p)
  \/ \E p \in TouchPoints : handleTouchMove(p)
  \/ handleTouchEnd
  \/ onPlay
  \/ onPause
  \/ \E t \in TransitionTargets : onTransitionEnd(t)
  \/ TimerFire

Spec == Init /\ [][Next]_vars

\* setTimeout callbacks are eventually run by the event loop
LiveSpec == Spec /\ WF_vars(TimerFire)

TypeOK ==
  /\ active \in Items \cup {NULL}
  /\ isPlaying \in BOOLEAN
  /\ isClosing \in BOOLEAN
  /\ dragX \in Nat
  /\ dragY \in Nat
  /\ wheelAccum \in 0..MaxWheelEnergy
  /\ timers \in 0..MaxTimers
  /\ keyListener \in BOOLEAN
  /\ scrollLock \in BOOLEAN

(* ======================================================================= *)
(* Properties                                                              *)
(* ======================================================================= *)
GestureEvents == {"wheel", "touchStart", "touchMove", "touchEnd"}
\* the step called closeSoft (the only place a timer is scheduled)
CloseSoftInvoked == timers' = timers + 1
\* the step is a touch release that reaches the dismiss policy
TouchRelease == ev' = "touchEnd" /\ isPlaying /\ touchStart # NoTouch

\* C1: once closeSoft has run on an open viewer (active item set, isClosing
\* true), the viewer eventually is Closed (no active item, isClosing false),
\* relying only on the fallback timer being run: no completion signal is
\* assumed, and any other events may be interleaved.
C1_FallbackReachesClosed ==
  (active # NULL /\ isClosing) ~> (active = NULL /\ ~isClosing)

\* a fallback timer has just closed a viewer on which closeSoft had run
C1_Witness ==
  ev = "timer" /\ hardStreak = 1 /\ softLog[1] >= 1 /\ active = NULL /\ ~isClosing

\* C2: a closeHard that runs immediately after another closeHard changes
\* none of active, isPlaying, isClosing, dragX, dragY, wheelAccum, the touch
\* anchor, the scroll lock and the key listener.
C2_CloseHardIdempotent ==
  [][hardStreak' >= 2 => UNCHANGED progVars]_vars

\* two handlers in a row ran closeHard, the second from the fallback timer
C2_Witness ==
  hardStreak >= 2 /\ ev = "timer"

\* C3: within one viewer session the wheel handler calls closeSoft at most
\* once.
C3_WheelClosesOnce ==
  softLog[2] <= 1

\* C4: when the completion signal has torn the viewer down, no fallback
\* timer is left pending.
C4_TimerCancelledOnTeardown ==
  (ev = "transitionEnd" /\ active = NULL) => timers = 0

\* C5: closeSoft takes effect at most once per viewer session (Closing is
\* not re-entered while the viewer is Closing).
C5_ClosingNotReentered ==
  softLog[1] <= 1

\* C6: the scroll lock and the cancel-key listener are held exactly when an
\* item is active (lifecycle not Closed), whichever of the timer and the
\* completion signal closed the viewer.
C6_LockHeldIffNotClosed ==
  /\ keyListener <=> (active # NULL)
  /\ scrollLock <=> (active # NULL)

\* the completion signal and then the fallback timer both ran closeHard and
\* the lock and the listener are released
C6_Witness ==
  /\ ev = "timer" /\ hardStreak = 2 /\ softLog[1] = 1
  /\ active = NULL /\ ~keyListener /\ ~scrollLock

\* C7: while isPlaying is false a wheel or touch event changes nothing:
\* neither the component state nor the pending timers.
C7_GesturesInertWhilePaused ==
  [][(~isPlaying /\ ev' \in GestureEvents) => UNCHANGED <<progVars, timers>>]_vars

\* a touch release was ignored while paused although an anchor was set and
\* the drag vector was past the swipe thresholds
C7_Witness ==
  /\ ev = "touchEnd" /\ ~isPlaying /\ active # NULL
  /\ touchStart # NoTouch /\ dragX = 90 /\ dragY = 50

\* C8: while the viewer is Closing, wheel and touch events neither change
\* dragX, dragY or wheelAccum nor call closeSoft.
C8_NoGestureWhileClosing ==
  [][(isClosing /\ ev' \in GestureEvents) =>
       UNCHANGED <<dragX, dragY, wheelAccum, timers>>]_vars

\* C9: a touch release with an anchor set while playing calls closeSoft
\* exactly when (dragX > 80 and dragX > |dragY|) or (dragY > 100 and
\* dragY >= |dragX|); otherwise it resets the drag vector to (0, 0).
C9_CommitIffPolicy ==
  [][TouchRelease =>
       LET commit == (dragX > 80 /\ dragX > Abs(dragY))
                     \/ (dragY > 100 /\ dragY >= Abs(dragX))
       IN  /\ CloseSoftInvoked <=> commit
           /\ ~commit => (dragX' = 0 /\ dragY' = 0)
           /\ (dragX = 90 /\ dragY = 50) => CloseSoftInvoked
           /\ (dragX = 50 /\ dragY = 110) => CloseSoftInvoked
           /\ (dragX = 90 /\ dragY = 95) =>
                (~CloseSoftInvoked /\ dragX' = 0 /\ dragY' = 0)]_vars

\* the release of the drag (90, 50) has committed
C9_Witness ==
  /\ ev = "touchEnd" /\ isClosing /\ softLog = <<1, 0>>
  /\ dragX = 90 /\ dragY = 50 /\ touchStart = NoTouch

\* C10 as stated: a committing release is strictly dominated by one axis:
\* dragX > dragY for the x axis, dragY > dragX for the y axis.
C10_StrictDominance ==
  [][(TouchRelease /\ CloseSoftInvoked) =>
       \/ (dragX > 80 /\ dragX > dragY)
       \/ (dragY > 100 /\ dragY > dragX)]_vars

\* C10 amended: a commit of the x axis has dragX > dragY, a commit of the
\* y axis has dragY >= dragX; a release with dragX = dragY commits exactly
\* when dragY > 100.
C10_DominanceWithTie ==
  [][TouchRelease =>
       /\ CloseSoftInvoked =>
            \/ (dragX > 80 /\ dragX > dragY)
            \/ (dragY > 100 /\ dragY >= dragX)
       /\ dragX = dragY => (CloseSoftInvoked <=> dragY > 100)]_vars

\* the release of the tied drag (110, 110) has committed
C10_Witness ==
  /\ ev = "touchEnd" /\ isClosing /\ softLog = <<1, 0>>
  /\ dragX = 110 /\ dragY = 110 /\ touchStart = NoTouch

\* C11: in every reachable state 0 <= dragX <= 200 and 0 <= dragY <= 240.
C11_DragWithinDistance ==
  /\ 0 <= dragX /\ dragX <= 200
  /\ 0 <= dragY /\ dragY <= 240

\* C12: for every reachable drag vector, progress is in [0, 1] and equals
\* max(min(dragX/200, 1), min(dragY/240, 1)), overlayAlpha is in [0.32, 0.8],
\* scale in [0.95, 1] and the content opacity in [0.6, 1].
C12_VisualRanges ==
  LET p == progress(dragX, dragY)
      a == overlayAlpha(dragX, dragY)
      z == scale(dragX, dragY)
      o == contentOpacity(dragX, dragY)
  IN  /\ 0 <= p /\ p <= ProgressDen
      /\ p = Max(Min(dragX * 240, 48000), Min(dragY * 200, 48000))
      /\ 32 * ProgressDen <= a /\ a <= 80 * ProgressDen
      /\ 95 * ProgressDen <= z /\ z <= 100 * ProgressDen
      /\ 6 * ProgressDen <= o /\ o <= 10 * ProgressDen

\* a drag past the x distance: progress is clamped to 1, overlayAlpha is 0.32
C12_Witness ==
  /\ dragX > SWIPE_X_DISTANCE /\ ev = "touchMove"
  /\ progress(dragX, dragY) = ProgressDen
  /\ overlayAlpha(dragX, dragY) = 32 * ProgressDen

\* C13: wheelAccum decreases only by being reset to 0, and only by onPlay
\* or by a handler that runs closeHard; touch start, touch move, touch
\* release, pause, and closeSoft from a key or a click leave it unchanged.
C13_WheelEnergyMonotone ==
  [][/\ wheelAccum' >= wheelAccum \/ wheelAccum' = 0
     /\ wheelAccum' < wheelAccum => (ev' = "play" \/ hardStreak' >= 1)
     /\ ev' \in {"touchStart", "touchMove", "touchEnd", "pause", "key", "click"}
          => wheelAccum' = wheelAccum]_vars

\* a touch start has reset the drag vector and kept the wheel energy
C13_Witness ==
  /\ ev = "touchStart" /\ touchStart # NoTouch
  /\ wheelAccum = 100 /\ dragX = 0 /\ dragY = 0

\* C14: right after a playback-start event isPlaying is true and dragX,
\* dragY and wheelAccum are all 0.
C14_PlayResetsGesture ==
  ev = "play" => (isPlaying /\ dragX = 0 /\ dragY = 0 /\ wheelAccum = 0)

\* C15: after closeHard the active item is null, isPlaying and isClosing
\* are false, dragX, dragY and wheelAccum are 0, the touch anchor is null,
\* the scroll lock is released and the key listener is removed.
C15_CloseHardClearsAll ==
  hardStreak >= 1 =>
    /\ active = NULL /\ ~isPlaying /\ ~isClosing
    /\ dragX = 0 /\ dragY = 0 /\ wheelAccum = 0 /\ touchStart = NoTouch
    /\ ~scrollLock /\ ~keyListener

\* the completion signal ran closeHard on a viewer closed by a swipe
C15_Witness ==
  /\ ev = "transitionEnd" /\ hardStreak = 1 /\ softLog = <<1, 0>>
  /\ active = NULL /\ timers = 1

\* C16: a wheel event with deltaY <= 0 changes neither wheelAccum nor dragY
\* and does not call closeSoft, in every state (also with wheelAccum at or
\* above 120).
C16_UpwardWheelInert ==
  [][(\E d \in WheelDeltas : d <= 0 /\ handleWheel(d)) =>
       (UNCHANGED <<wheelAccum, dragY, isClosing>> /\ ~CloseSoftInvoked)]_vars

\* a wheel event was handled while playing and the accumulator is still 0:
\* its deltaY was not positive
C16_Witness ==
  ev = "wheel" /\ isPlaying /\ active # NULL /\ wheelAccum = 0 /\ dragY = 0

\* C17: a touch release that reaches the dismiss policy and does not commit
\* resets the drag vector to (0, 0), clears the touch anchor and leaves
\* wheelAccum, isClosing, the active item and the pending timers unchanged.
C17_SnapBackFrame ==
  [][(TouchRelease /\ ~CloseSoftInvoked) =>
       /\ dragX' = 0 /\ dragY' = 0 /\ touchStart' = NoTouch
       /\ UNCHANGED <<wheelAccum, isClosing, active, timers>>]_vars

\* a release has snapped back with wheel energy accumulated before it
C17_Witness ==
  /\ ev = "touchEnd" /\ isPlaying /\ ~isClosing /\ touchStart = NoTouch
  /\ dragX = 0 /\ dragY = 0 /\ wheelAccum = 100 /\ timers = 0

\* C18: a touch-end event with no touch anchor set changes nothing (no
\* closeSoft, dragX, dragY, wheelAccum and the lifecycle unchanged), even
\* when the drag vector is past the swipe thresholds.
C18_TouchEndWithoutStart ==
  [][(ev' = "touchEnd" /\ touchStart = NoTouch) =>
       UNCHANGED <<progVars, timers>>]_vars

\* a touch end was ignored while playing although wheel ticks had raised
\* dragY past the y threshold
C18_Witness ==
  /\ ev = "touchEnd" /\ isPlaying /\ ~isClosing /\ touchStart = NoTouch
  /\ dragX = 0 /\ dragY = 120 /\ softLog = <<0, 0>>

\* C19: a viewer is torn down (active item set to null) only in a session
\* in which closeSoft has been called since the session was opened.
C19_TeardownOnlyAfterSoftClose ==
  [][(active # NULL /\ active' = NULL) => softLog[1] >= 1]_vars

\* C20: whenever no item is active, isPlaying and isClosing are false,
\* dragX, dragY and wheelAccum are 0 and the touch anchor is null, so a
\* session always opens on cleared gesture state.
C20_ClosedIsCleared ==
  active = NULL =>
    /\ ~isPlaying /\ ~isClosing
    /\ dragX = 0 /\ dragY = 0 /\ wheelAccum = 0 /\ touchStart = NoTouch

\* a viewer reopened after an earlier session (whose fallback timer is still
\* pending) starts with cleared gesture state
C20_Witness ==
  /\ ev = "card" /\ active # NULL /\ timers >= 1 /\ softLog = <<0, 0>>
  /\ ~isPlaying /\ ~isClosing
  /\ dragX = 0 /\ dragY = 0 /\ wheelAccum = 0 /\ touchStart = NoTouch
====
